---- MODULE Spec2Model ----
(***************************************************************************)
(* Storage client of the academic-ops agent (src/database/supabase_client  *)
(* .py, src/database/models.py).  The tables are the state; every          *)
(* DatabaseClient method is an action, and every request sent with         *)
(* .execute() is one atomic step on the shared storage.                    *)
(***************************************************************************)
EXTENDS Integers, Sequences, FiniteSets, TLC

VARIABLES
    tasks,      \* table "tasks": a set of rows
    upsert,     \* the upsert_task call that is waiting to retry, or idle
    blocks,     \* table "scheduled_blocks": a set of rows
    rep,        \* a caller replacing the future schedule (clear, then inserts)
    profiles,   \* table "productivity_profile": a set of rows
    nextRowId,  \* the id storage gives to the next inserted profile row
    upd,        \* the update_productivity_profile calls in flight, by client
    conflicts,  \* table "conflicts": the rows in insertion order (no id column)
    last        \* the operation that completed last, with its arguments and result

vars == <<tasks, upsert, blocks, rep, profiles, nextRowId, upd, conflicts, last>>

\* Optional[...] = None, for a number (an id, a time) and for an enum value
None == -1

NoneStr == "None"

(***************************************************************************)
(* Bounds of the model                                                     *)
(***************************************************************************)
MaxTaskId == 2
MaxSourceId == 1
MaxCourseId == 1
MaxDue == 1
BulkTasks == 101
MaxBlockId == 2
MaxTime == 2
MaxClients == 2
MaxDataPoints == 2

TaskIds == 1..MaxTaskId
SourceIds == 1..MaxSourceId
CourseIds == 1..MaxCourseId
DueDates == 0..MaxDue
BlockIds == 1..MaxBlockId
Times == 0..MaxTime
Clients == 1..MaxClients

(***************************************************************************)
(* models.py                                                               *)
(***************************************************************************)
DataSource == {"calendar", "gmail", "outlook", "syllabus", "manual"}

TaskStatus == {"pending", "in_progress", "completed", "cancelled", "snoozed"}

\* The sources the model's syncs deliver tasks from
Sources == {"calendar", "gmail"}

\* Task(...): the fields of a task the storage operations read or write
Task(id, source, source_id, course_id, due_date, status, dependencies) ==
    [id |-> id, source |-> source, source_id |-> source_id,
     course_id |-> course_id, due_date |-> due_date, status |-> status,
     dependencies |-> dependencies, snoozed_until |-> None]

\* The columns of a tasks row as Task(**row) reads them
TaskColumns == {"id", "source", "source_id", "course_id", "due_date",
                "status", "dependencies", "snoozed_until"}

\* The tasks a sync hands to upsert_task: freshly normalized, hence pending
TaskInputs ==
    {Task(i, s, sid, c, d, "pending", deps) :
        i \in TaskIds, s \in Sources, sid \in SourceIds \cup {None},
        c \in CourseIds \cup {None}, d \in DueDates,
        deps \in {<<>>} \cup {<<j>> : j \in {MaxTaskId}}}

(***************************************************************************)
(* Storage requests on a table                                             *)
(***************************************************************************)
\* on_conflict="source,source_id": the rows the written row conflicts with
OnConflictMutant(rows, data) == {r \in rows : r.id = data.id}
OnConflict(rows, data) ==
    {r \in rows : r.source = data.source /\ r.source_id = data.source_id}

\* table("tasks").upsert(data, on_conflict=...): the conflicting row is replaced
UpsertRows(rows, data) == (rows \ OnConflict(rows, data)) \cup {data}

\* ... and the request is refused when another row already has the primary key
UpsertRefused(rows, data) ==
    \E r \in rows \ OnConflict(rows, data) : r.id = data.id

\* table(...).update(patch): the patched columns of one row
ApplyUpdate(row, patch) ==
    [c \in DOMAIN row |-> IF c \in DOMAIN patch THEN patch[c] ELSE row[c]]

\* table(...).update(patch).eq("id", id)
UpdateRows(rows, id, patch) ==
    {IF r.id = id THEN ApplyUpdate(r, patch) ELSE r : r \in rows}

\* The tables an update request can leave: a patch naming only columns of the
\* table is applied; one naming a key that is no column is either refused as
\* a whole or applied without that key.
UpdateOutcomes(rows, id, patch, columns) ==
    IF DOMAIN patch \subseteq columns
    THEN {UpdateRows(rows, id, patch)}
    ELSE {rows, UpdateRows(rows, id, patch)}

\* table(...).delete().eq("id", id)
DeleteRows(rows, id) == {r \in rows : r.id # id}

\* query.order("due_date").limit(limit): the possible results, as sets of rows
\* (rows with equal due_date come in either order)
OrderLimit(rows, limit) ==
    IF Cardinality(rows) <= limit THEN {rows}
    ELSE LET Before(d) == {r \in rows : r.due_date < d}
             UpTo(d) == {r \in rows : r.due_date <= d}
             cut == CHOOSE d \in {r.due_date : r \in rows} :
                        /\ Cardinality(Before(d)) < limit
                        /\ Cardinality(UpTo(d)) >= limit
         IN {Before(cut) \cup E :
                E \in {X \in SUBSET (UpTo(cut) \ Before(cut)) :
                          Cardinality(X) = limit - Cardinality(Before(cut))}}

(***************************************************************************)
(* DatabaseClient: tasks                                                   *)
(***************************************************************************)
\* get_task_by_source: the rows the query matches
GetTaskBySource(rows, source, source_id) ==
    {r \in rows : r.source = source /\ r.source_id = source_id}

\* get_tasks(..., limit: int = 100)
DefaultLimit == 100

\* get_tasks(status, due_before, due_after, limit): the possible results
GetTasks(rows, status, due_before, due_after, limit) ==
    OrderLimit({r \in rows :
                   /\ status # NoneStr => r.status = status
                   /\ due_before # None => r.due_date = due_before
                   /\ due_after # None => r.due_date >= due_after}, limit)

\* get_pending_tasks()
GetPendingTasks(rows) == GetTasks(rows, "pending", None, None, DefaultLimit)

\* @retry(stop=stop_after_attempt(3), ...)
MaxAttempts == 3

StopAfterAttemptMutant(attempt) == attempt >= MaxAttempts + 1
StopAfterAttempt(attempt) == attempt >= MaxAttempts

Idle == [pc |-> "idle"]

\* What a completed upsert_task call leaves in "last": the task it was given,
\* the attempts it made, whether it raised, what it returned (ret: the set
\* holding the returned Task, empty for None) and the rows its write replaced
UpsertDone(task, attempt, raised, ret, replaced) ==
    [op |-> "upsert_task", task |-> task, attempts |-> attempt,
     raised |-> raised, ret |-> ret, replaced |-> replaced]

\* One attempt of upsert_task(task), the attempt-th of its call.  The body
\* writes only under "if task.course_id"; the write can fail (a transient
\* failure, fails = TRUE, or a refused request), and then the call waits to
\* try again unless the attempts are used up.
UpsertAttempt(task, attempt, fails) ==
    IF task.course_id = None
    THEN /\ tasks' = tasks
         /\ upsert' = Idle
         /\ last' = UpsertDone(task, attempt, FALSE, {}, {})
    ELSE IF fails \/ UpsertRefused(tasks, task)
    THEN /\ tasks' = tasks
         /\ IF StopAfterAttempt(attempt)
            THEN /\ upsert' = Idle
                 /\ last' = UpsertDone(task, attempt, TRUE, {}, {})
            ELSE /\ upsert' = [pc |-> "waiting", task |-> task,
                               attempt |-> attempt]
                 /\ last' = [op |-> "upsert_task_failed"]
    ELSE /\ tasks' = UpsertRows(tasks, task)
         /\ upsert' = Idle
         /\ last' = UpsertDone(task, attempt, FALSE, {task},
                               OnConflict(tasks, task))

\* upsert_task(task): the call and its first attempt
UpsertTask(task, fails) ==
    /\ upsert.pc = "idle"
    /\ UpsertAttempt(task, 1, fails)
    /\ UNCHANGED <<conflicts, blocks, rep, profiles, nextRowId, upd>>

\* upsert_task: the next attempt, after the wait
UpsertRetry(fails) ==
    /\ upsert.pc = "waiting"
    /\ UpsertAttempt(upsert.task, upsert.attempt + 1, fails)
    /\ UNCHANGED <<conflicts, blocks, rep, profiles, nextRowId, upd>>

\* update_task_status(task_id, status); completed_at and actual_hours, which
\* it also writes for a completed task, are columns no modelled operation reads
UpdateTaskStatus(task_id, status) ==
    /\ tasks' = UpdateRows(tasks, task_id, [status |-> status])
    /\ last' = [op |-> "update_task_status", task_id |-> task_id]
    /\ UNCHANGED <<conflicts, upsert, blocks, rep, profiles, nextRowId, upd>>

\* snooze_Task(task_id, until)
SnoozeTask(task_id, until) ==
    /\ tasks' \in UpdateOutcomes(tasks, task_id,
                     [status |-> "snoozed", snoozed_util |-> until],
                     TaskColumns)
    /\ last' = [op |-> "snooze_Task", task_id |-> task_id, until |-> until]
    /\ UNCHANGED <<conflicts, upsert, blocks, rep, profiles, nextRowId, upd>>

\* delete_task(task_id)
DeleteTask(task_id) ==
    /\ tasks' = DeleteRows(tasks, task_id)
    /\ last' = [op |-> "delete_task", task_id |-> task_id]
    /\ UNCHANGED <<conflicts, upsert, blocks, rep, profiles, nextRowId, upd>>

\* get_task_by_source(source, source_id), called by a sync before it writes
ReadTaskBySource(source, source_id) ==
    /\ last' = [op |-> "get_task_by_source", source |-> source,
                source_id |-> source_id,
                matches |-> GetTaskBySource(tasks, source, source_id)]
    /\ UNCHANGED <<conflicts, tasks, upsert, blocks, rep, profiles, nextRowId,
                   upd>>

\* get_pending_tasks(), called by a reader
ReadPendingTasks ==
    /\ \E result \in GetPendingTasks(tasks) :
          last' = [op |-> "get_pending_tasks", ret |-> result]
    /\ UNCHANGED <<conflicts, tasks, upsert, blocks, rep, profiles, nextRowId,
                   upd>>

(***************************************************************************)
(* Specification: syncs writing tasks (upsert_task with its retries,       *)
(* delete_task, get_task_by_source)                                        *)
(***************************************************************************)
Init ==
    /\ tasks = {}
    /\ upsert = Idle
    /\ blocks = {}
    /\ rep = Idle
    /\ profiles = {}
    /\ nextRowId = 1
    /\ upd = <<>>
    /\ conflicts = <<>>
    /\ last = [op |-> "init"]

\* The tasks the syncs of this specification deliver
SyncInputs ==
    {t \in TaskInputs : t.due_date = 0 /\ t.course_id \in {None, 1}}

Next ==
    \/ \E t \in SyncInputs, f \in BOOLEAN : UpsertTask(t, f)
    \/ \E f \in BOOLEAN : UpsertRetry(f)
    \/ \E i \in TaskIds : DeleteTask(i)
    \/ \E s \in Sources, sid \in SourceIds \cup {None} : ReadTaskBySource(s, sid)

Spec == Init /\ [][Next]_vars

(***************************************************************************)
(* Specification: the status of stored tasks (update_task_status,          *)
(* snooze_Task, get_pending_tasks) over tasks written without failures     *)
(***************************************************************************)
StatusInputs ==
    {t \in TaskInputs : /\ t.course_id # None
                        /\ t.source_id # None
                        /\ t.dependencies = <<>>}

NextStatus ==
    \/ \E t \in StatusInputs : UpsertTask(t, FALSE)
    \/ UpsertRetry(FALSE)
    \/ \E i \in TaskIds, s \in TaskStatus : UpdateTaskStatus(i, s)
    \/ \E i \in TaskIds, u \in DueDates : SnoozeTask(i, u)
    \/ ReadPendingTasks

SpecStatus == Init /\ [][NextStatus]_vars

(***************************************************************************)
(* Specification: a tasks table that grows past the default limit of       *)
(* get_tasks, one new task per upsert_task                                 *)
(***************************************************************************)
BulkInputs ==
    LET n == Cardinality(tasks) + 1
    IN IF n <= BulkTasks
       THEN {Task(n, "calendar", n, 1, n, "pending", <<>>)}
       ELSE {}

NextBulk ==
    \/ \E t \in BulkInputs : UpsertTask(t, FALSE)
    \/ \E i \in TaskIds : UpdateTaskStatus(i, "completed")
    \/ ReadPendingTasks

SpecBulk == Init /\ [][NextBulk]_vars

(***************************************************************************)
(* Properties of the tasks table                                           *)
(***************************************************************************)
\* C1: no two stored tasks share (source, source_id); an upsert_task whose
\* (source, source_id) is already stored replaces that row instead of adding
\* a second one, and get_task_by_source matches at most one task.
C1_UniqueSourceKey ==
    /\ \A a, b \in tasks :
          (a.source = b.source /\ a.source_id = b.source_id) => a = b
    /\ \A s \in Sources, sid \in SourceIds \cup {None} :
          Cardinality(GetTaskBySource(tasks, s, sid)) <= 1
    /\ last.op = "get_task_by_source" => Cardinality(last.matches) <= 1
    /\ (last.op = "upsert_task" /\ last.ret # {}) =>
          GetTaskBySource(tasks, last.task.source, last.task.source_id)
              = {last.task}

\* C1 happens: a task from a later sync (with another id) replaced the stored
\* row of its (source, source_id)
C1_Witness ==
    /\ last.op = "upsert_task"
    /\ \E r \in last.replaced : r.id # last.task.id
    /\ last.task \in tasks

\* C2: a call of upsert_task that returns (does not raise) has stored the task
\* it was given, dependencies included, and returns that task, never None,
\* whether or not the task has a course_id.
C2_UpsertPersistsEveryTask ==
    (last.op = "upsert_task" /\ ~last.raised) =>
        /\ last.ret = {last.task}
        /\ last.task \in tasks
        /\ \E r \in tasks : /\ r.id = last.task.id
                             /\ r.dependencies = last.task.dependencies

\* C3: one call of upsert_task makes at most 3 attempts; a call still waiting
\* to retry has made fewer than 3; a call that completed is not attempted
\* again; the failure is raised to the caller only by the third failed attempt.
C3_RetriesBounded ==
    /\ upsert.pc = "waiting" => upsert.attempt \in 1..2
    /\ last.op = "upsert_task" =>
          /\ last.attempts \in 1..3
          /\ upsert.pc = "idle"
          /\ last.raised => last.attempts = 3
    /\ last.op = "upsert_task_failed" => upsert.pc = "waiting"

\* C3 happens: three attempts failed and the call raised
C3_Witness ==
    /\ last.op = "upsert_task"
    /\ last.raised
    /\ last.attempts = 3

\* C4: get_pending_tasks returns exactly the stored tasks whose status is
\* pending, however many there are.
C4_PendingExactly ==
    last.op = "get_pending_tasks" =>
        last.ret = {r \in tasks : r.status = "pending"}

\* C10: after snooze_Task(task_id, until) the stored task has status snoozed
\* and snoozed_until = until, and get_pending_tasks does not return it.
C10_SnoozeSetsUntil ==
    last.op = "snooze_Task" =>
        \A r \in tasks :
            r.id = last.task_id =>
                /\ r.status = "snoozed"
                /\ r.snoozed_until = last.until
                /\ \A result \in GetPendingTasks(tasks) : r \notin result

(***************************************************************************)
(* models.py: ScheduledBlock                                               *)
(***************************************************************************)
BlockStatus == {"scheduled", "in_progress", "completed", "skipped"}

\* ScheduledBlock(...): no validator relates end_time to start_time
ScheduledBlock(id, task_id, start_time, end_time, status) ==
    [id |-> id, task_id |-> task_id, start_time |-> start_time,
     end_time |-> end_time, status |-> status]

\* ScheduledBlock.duration_hours, with the hour as the unit of time
DurationHours(block) == block.end_time - block.start_time

\* The blocks a caller can construct and hand to create_scheduled_block
BlockInputs ==
    {ScheduledBlock(i, t, s, e, "scheduled") :
        i \in BlockIds, t \in TaskIds, s \in Times, e \in Times}

(***************************************************************************)
(* DatabaseClient: scheduled blocks                                        *)
(***************************************************************************)
\* table(...).insert(data) is refused when a row already has the primary key
InsertRefused(rows, data) == \E r \in rows : r.id = data.id

\* get_scheduled_blocks(start_after, start_before, task_id)
GetScheduledBlocks(rows, start_after, start_before, task_id) ==
    {r \in rows :
        /\ start_after # None => r.start_time >= start_after
        /\ start_before # None => r.start_time <= start_before
        /\ task_id # None => r.task_id = task_id}

\* clear_future_schedule(after): the rows the delete leaves
ClearFutureScheduleMutant(rows, after) ==
    {r \in rows : ~(r.start_time > after)}
ClearFutureSchedule(rows, after) ==
    {r \in rows : ~(r.start_time >= after)}

\* create_scheduled_block(block)
CreateScheduledBlock(block) ==
    /\ IF InsertRefused(blocks, block)
       THEN /\ blocks' = blocks
            /\ last' = [op |-> "create_scheduled_block", block |-> block,
                        raised |-> TRUE]
       ELSE /\ blocks' = blocks \cup {block}
            /\ last' = [op |-> "create_scheduled_block", block |-> block,
                        raised |-> FALSE]
    /\ UNCHANGED <<conflicts, tasks, upsert, rep, profiles, nextRowId, upd>>

\* update_block_status(block_id, status)
UpdateBlockStatus(block_id, status) ==
    /\ blocks' = UpdateRows(blocks, block_id, [status |-> status])
    /\ last' = [op |-> "update_block_status", block_id |-> block_id]
    /\ UNCHANGED <<conflicts, tasks, upsert, rep, profiles, nextRowId, upd>>

\* delete_blocks_for_Task(task_id)
DeleteBlocksForTask(task_id) ==
    /\ blocks' = {r \in blocks : r.task_id # task_id}
    /\ last' = [op |-> "delete_blocks_for_Task", task_id |-> task_id]
    /\ UNCHANGED <<conflicts, tasks, upsert, rep, profiles, nextRowId, upd>>

\* clear_future_schedule(after)
ClearFuture(after) ==
    /\ blocks' = ClearFutureSchedule(blocks, after)
    /\ last' = [op |-> "clear_future_schedule", after |-> after]
    /\ UNCHANGED <<conflicts, tasks, upsert, rep, profiles, nextRowId, upd>>

\* get_scheduled_blocks(start_after=start_after), called by a reader
ReadScheduledBlocks(start_after) ==
    /\ last' = [op |-> "get_scheduled_blocks", start_after |-> start_after,
                ret |-> GetScheduledBlocks(blocks, start_after, None, None)]
    /\ UNCHANGED <<conflicts, tasks, upsert, blocks, rep, profiles, nextRowId,
                   upd>>

(***************************************************************************)
(* Specification: callers of the scheduled_blocks operations, in any order *)
(***************************************************************************)
NextBlocks ==
    \/ \E b \in BlockInputs : CreateScheduledBlock(b)
    \/ \E i \in BlockIds, s \in BlockStatus : UpdateBlockStatus(i, s)
    \/ \E t \in TaskIds : DeleteBlocksForTask(t)
    \/ \E a \in Times : ClearFuture(a)
    \/ \E a \in Times : ReadScheduledBlocks(a)

SpecBlocks == Init /\ [][NextBlocks]_vars

(***************************************************************************)
(* Specification: a caller persisting a schedule as the spec's             *)
(* replace-the-future-schedule sequence, clear_future_schedule(now) and    *)
(* then create_scheduled_block for each block of the new set, run twice    *)
(* with the same arguments, while readers call get_scheduled_blocks        *)
(***************************************************************************)
\* The blocks a schedule builder produces: of positive duration
BuiltBlocks ==
    {b \in BlockInputs : b.end_time > b.start_time /\ b.task_id = 1}

\* Two blocks overlap in time
Overlap(a, b) == a.start_time < b.end_time /\ b.start_time < a.end_time

\* The new sets a caller inserts after clearing at now: blocks starting at or
\* after now, each with its own id, no two of them overlapping
NewSchedules(now) ==
    {S \in SUBSET {b \in BuiltBlocks : b.start_time >= now} :
        \A a, b \in S : a # b => (a.id # b.id /\ ~Overlap(a, b))}

\* The stored blocks starting at or after now / before now
FutureBlocks(rows, now) == {r \in rows : r.start_time >= now}

PastBlocks(rows, now) == {r \in rows : r.start_time < now}

\* The caller starts a replace at time now (time does not run backwards
\* between two replaces)
ReplaceBegin(now, S) ==
    /\ \/ rep.pc = "idle"
       \/ rep.pc \in {"done", "failed"} /\ now >= rep.now
    /\ rep' = [pc |-> "clear", now |-> now, new |-> S, todo |-> S,
               run |-> 1, before |-> blocks]
    /\ last' = [op |-> "replace_begin"]
    /\ UNCHANGED <<conflicts, tasks, upsert, blocks, profiles, nextRowId, upd>>

\* await clear_future_schedule(now)
ReplaceClear ==
    /\ rep.pc = "clear"
    /\ blocks' = ClearFutureSchedule(blocks, rep.now)
    /\ rep' = [rep EXCEPT !.pc = IF rep.todo = {} THEN "done" ELSE "insert"]
    /\ last' = [op |-> "clear_future_schedule", after |-> rep.now]
    /\ UNCHANGED <<conflicts, tasks, upsert, profiles, nextRowId, upd>>

\* await create_scheduled_block(block), for the next block of the new set
ReplaceCreate(block) ==
    /\ rep.pc = "insert"
    /\ block \in rep.todo
    /\ IF InsertRefused(blocks, block)
       THEN /\ blocks' = blocks
            /\ rep' = [rep EXCEPT !.pc = "failed"]
            /\ last' = [op |-> "create_scheduled_block", block |-> block,
                        raised |-> TRUE]
       ELSE /\ blocks' = blocks \cup {block}
            /\ rep' = [rep EXCEPT !.todo = rep.todo \ {block},
                                  !.pc = IF rep.todo = {block}
                                         THEN "done" ELSE "insert"]
            /\ last' = [op |-> "create_scheduled_block", block |-> block,
                        raised |-> FALSE]
    /\ UNCHANGED <<conflicts, tasks, upsert, profiles, nextRowId, upd>>

\* The caller runs the same clear-then-insert sequence a second time
ReplaceAgain ==
    /\ rep.pc = "done"
    /\ rep.run = 1
    /\ rep' = [rep EXCEPT !.pc = "clear", !.todo = rep.new, !.run = 2,
                          !.before = blocks]
    /\ last' = [op |-> "replace_begin"]
    /\ UNCHANGED <<conflicts, tasks, upsert, blocks, profiles, nextRowId, upd>>

NextReplace ==
    \/ \E now \in Times : \E S \in NewSchedules(now) : ReplaceBegin(now, S)
    \/ ReplaceClear
    \/ \E b \in BuiltBlocks : ReplaceCreate(b)
    \/ ReplaceAgain
    \/ \E a \in Times : ReadScheduledBlocks(a)

SpecReplace == Init /\ [][NextReplace]_vars

(***************************************************************************)
(* Properties of the scheduled_blocks table                                *)
(***************************************************************************)
\* C5: a get_scheduled_blocks(start_after=now) call made at any point of a
\* replace at now returns either the complete old set of future blocks or the
\* complete new set.
C5_ReplaceAtomicForReaders ==
    (/\ last.op = "get_scheduled_blocks"
     /\ rep.pc \in {"clear", "insert", "done"}
     /\ last.start_after = rep.now) =>
        \/ last.ret = FutureBlocks(rep.before, rep.now)
        \/ last.ret = rep.new

\* C6: when clear_future_schedule(now) and create_scheduled_block for every
\* block of S have run, the stored blocks starting at or after now are exactly
\* S and the blocks starting before now are the ones stored before; a second
\* run of the same sequence completes and leaves the table as the first did.
C6_ReplaceIdempotent ==
    /\ rep.pc = "done" =>
          /\ FutureBlocks(blocks, rep.now) = rep.new
          /\ PastBlocks(blocks, rep.now) = PastBlocks(rep.before, rep.now)
          /\ rep.run = 2 => blocks = rep.before
    /\ rep.pc = "failed" => rep.run = 1

\* C6 happens: the second run is complete; it had the first run's blocks to
\* clear, a past block to keep and the new blocks to insert again
C6_Witness ==
    /\ rep.pc = "done"
    /\ rep.run = 2
    /\ rep.new # {}
    /\ PastBlocks(blocks, rep.now) # {}
    /\ last.op = "create_scheduled_block"

\* C7: no two stored blocks overlap in time.
C7_NoOverlap ==
    \A a, b \in blocks :
        a # b => (a.end_time <= b.start_time \/ b.end_time <= a.start_time)

\* C8: every block constructed or stored has end_time > start_time, so its
\* duration_hours is positive.
C8_PositiveDuration ==
    /\ \A b \in blocks : b.end_time > b.start_time /\ DurationHours(b) > 0
    /\ last.op = "create_scheduled_block" =>
          last.block.end_time > last.block.start_time

(***************************************************************************)
(* models.py: ProductivityProfile                                          *)
(***************************************************************************)
\* ProductivityProfile(data_points=n), the other fields at their defaults
ProductivityProfile(n) ==
    [data_points |-> n,
     preferred_block_length |-> 90,
     break_preference |-> 15,
     peak_hours |-> <<8, 9, 10, 15, 16>>,
     avoid_hours |-> <<13, 14, 22, 23>>]

\* The profiles the learner writes
ProfileInputs == {ProductivityProfile(n) : n \in 1..MaxDataPoints}

(***************************************************************************)
(* DatabaseClient: productivity profile                                    *)
(***************************************************************************)
\* select(...).limit(1).single(): the rows the query can return, none as {}
SelectOne(rows) == IF rows = {} THEN {{}} ELSE {{r} : r \in rows}

\* update_productivity_profile(profile), first request: select("id").limit(1)
UpdateProfileSelect(c, profile) ==
    /\ upd[c].pc = "idle"
    /\ \E existing \in SelectOne(profiles) :
          upd' = [upd EXCEPT ![c] = [pc |-> "selected", profile |-> profile,
                                     existing |-> {r.id : r \in existing}]]
    /\ last' = [op |-> "select_profile_id", client |-> c]
    /\ UNCHANGED <<conflicts, tasks, upsert, blocks, rep, profiles, nextRowId>>

\* update_productivity_profile(profile), second request: update the row that
\* was found, or insert a row when none was
UpdateProfileWrite(c) ==
    /\ upd[c].pc = "selected"
    /\ IF upd[c].existing # {}
       THEN /\ profiles' = {IF r.id \in upd[c].existing
                               THEN [id |-> r.id, data |-> upd[c].profile]
                               ELSE r : r \in profiles}
            /\ nextRowId' = nextRowId
       ELSE /\ profiles' = profiles \cup
                               {[id |-> nextRowId, data |-> upd[c].profile]}
            /\ nextRowId' = nextRowId + 1
    /\ upd' = [upd EXCEPT ![c] = Idle]
    /\ last' = [op |-> "update_productivity_profile", client |-> c,
                profile |-> upd[c].profile]
    /\ UNCHANGED <<conflicts, tasks, upsert, blocks, rep>>

\* get_productivity_profile(): the stored profile, or ProductivityProfile()
ReadProductivityProfile ==
    /\ \E found \in SelectOne(profiles) :
          last' = [op |-> "get_productivity_profile",
                   ret |-> IF found = {} THEN ProductivityProfile(0)
                           ELSE (CHOOSE r \in found : TRUE).data]
    /\ UNCHANGED <<conflicts, tasks, upsert, blocks, rep, profiles, nextRowId,
                   upd>>

(***************************************************************************)
(* Specification: clients updating and reading the productivity profile    *)
(***************************************************************************)
InitProfile ==
    /\ tasks = {}
    /\ upsert = Idle
    /\ blocks = {}
    /\ rep = Idle
    /\ profiles = {}
    /\ nextRowId = 1
    /\ upd = [c \in Clients |-> Idle]
    /\ conflicts = <<>>
    /\ last = [op |-> "init"]

NextProfile ==
    \/ \E c \in Clients, p \in ProfileInputs : UpdateProfileSelect(c, p)
    \/ \E c \in Clients : UpdateProfileWrite(c)
    \/ ReadProductivityProfile

SpecProfile == InitProfile /\ [][NextProfile]_vars

(***************************************************************************)
(* Properties of the productivity_profile table                            *)
(***************************************************************************)
\* C9: storage holds at most one profile row, and after an update completes
\* the row holds the profile of one of the updates.
C9_ProfileSingleton ==
    /\ Cardinality(profiles) <= 1
    /\ last.op = "update_productivity_profile" =>
          \A r \in profiles : r.data \in ProfileInputs

(***************************************************************************)
(* Tasks and the clock: time in hours, "now" the value of datetime.utcnow() *)
(***************************************************************************)
\* timedelta(days=1), in hours
HoursPerDay == 24

\* timedelta(days=7), in days
DaysPerWeek == 7

\* now.replace(hour=0, minute=0, second=0, microsecond=0)
StartOfDay(now) == now - (now % HoursPerDay)

\* Task.is_overdue
IsOverdue(task, now) == task.status = "pending" /\ task.due_date < now

\* Task.hours_until_due: max(0, delta.total_seconds() / 3600)
HoursUntilDueMutant(task, now) == task.due_date - now
HoursUntilDue(task, now) ==
    LET delta == task.due_date - now
    IN IF delta > 0 THEN delta ELSE 0

\* get_today_tasks()
GetTodayTasks(rows, now) ==
    GetTasks(rows, NoneStr, StartOfDay(now) + HoursPerDay, StartOfDay(now),
             DefaultLimit)

\* get_week_tasks()
GetWeekTasks(rows, now) ==
    GetTasks(rows, NoneStr, StartOfDay(now) + DaysPerWeek * HoursPerDay,
             StartOfDay(now), DefaultLimit)

\* get_overdue_tasks()
GetOverdueTasks(rows, now) ==
    GetTasks(rows, "pending", now, None, DefaultLimit)

\* get_today_tasks(), called at time now
ReadTodayTasks(now) ==
    /\ \E result \in GetTodayTasks(tasks, now) :
          last' = [op |-> "get_today_tasks", now |-> now, ret |-> result]
    /\ UNCHANGED <<conflicts, tasks, upsert, blocks, rep, profiles, nextRowId,
                   upd>>

\* get_week_tasks(), called at time now
ReadWeekTasks(now) ==
    /\ \E result \in GetWeekTasks(tasks, now) :
          last' = [op |-> "get_week_tasks", now |-> now, ret |-> result]
    /\ UNCHANGED <<conflicts, tasks, upsert, blocks, rep, profiles, nextRowId,
                   upd>>

\* get_overdue_tasks(), called at time now
ReadOverdueTasks(now) ==
    /\ \E result \in GetOverdueTasks(tasks, now) :
          last' = [op |-> "get_overdue_tasks", now |-> now, ret |-> result]
    /\ UNCHANGED <<conflicts, tasks, upsert, blocks, rep, profiles, nextRowId,
                   upd>>

\* task.is_overdue and task.hours_until_due, read at time now
ReadTaskProperties(task, now) ==
    /\ last' = [op |-> "task_properties", task |-> task, now |-> now,
                is_overdue |-> IsOverdue(task, now),
                hours_until_due |-> HoursUntilDue(task, now)]
    /\ UNCHANGED <<conflicts, tasks, upsert, blocks, rep, profiles, nextRowId,
                   upd>>

(***************************************************************************)
(* Specification: readers of the tasks table by due date                   *)
(***************************************************************************)
NextDue ==
    \/ \E t \in StatusInputs : UpsertTask(t, FALSE)
    \/ UpsertRetry(FALSE)
    \/ \E i \in TaskIds, s \in TaskStatus : UpdateTaskStatus(i, s)
    \/ \E now \in Times : ReadTodayTasks(now)
    \/ \E now \in Times : ReadWeekTasks(now)
    \/ \E now \in Times : ReadOverdueTasks(now)

SpecDue == Init /\ [][NextDue]_vars

(***************************************************************************)
(* Specification: the properties of a Task, for tasks of every status and  *)
(* due date read at every time                                             *)
(***************************************************************************)
PropertyInputs ==
    {Task(i, s, None, None, d, st, <<>>) :
        i \in TaskIds, s \in Sources, d \in Times, st \in TaskStatus}

NextProperties ==
    \E t \in PropertyInputs, now \in Times : ReadTaskProperties(t, now)

SpecProperties == Init /\ [][NextProperties]_vars

(***************************************************************************)
(* Properties of tasks and the clock                                       *)
(***************************************************************************)
\* C11: get_overdue_tasks returns every stored pending task due before now,
\* the tasks whose is_overdue is true; get_today_tasks and get_week_tasks
\* return every stored task due from the start of today up to the start of
\* tomorrow, or of the day seven days ahead.
C11_DueBeforeIsUpperBound ==
    /\ last.op = "get_overdue_tasks" =>
          /\ last.ret = {r \in tasks : r.status = "pending"
                                         /\ r.due_date < last.now}
          /\ last.ret = {r \in tasks : IsOverdue(r, last.now)}
    /\ last.op = "get_today_tasks" =>
          \A r \in tasks :
              (/\ r.due_date >= StartOfDay(last.now)
               /\ r.due_date < StartOfDay(last.now) + HoursPerDay)
                  => r \in last.ret
    /\ last.op = "get_week_tasks" =>
          \A r \in tasks :
              (/\ r.due_date >= StartOfDay(last.now)
               /\ r.due_date < StartOfDay(last.now) + DaysPerWeek * HoursPerDay)
                  => r \in last.ret

\* C14: hours_until_due is never negative and is 0 when due_date is at or
\* before now; is_overdue is true exactly for a pending task due before now;
\* so an overdue task has hours_until_due = 0 and a task that is not pending
\* is never overdue.
C14_OverdueAndHoursUntilDue ==
    last.op = "task_properties" =>
        /\ last.hours_until_due >= 0
        /\ last.task.due_date <= last.now => last.hours_until_due = 0
        /\ last.is_overdue <=>
              (last.task.status = "pending" /\ last.task.due_date < last.now)
        /\ last.is_overdue => last.hours_until_due = 0
        /\ last.task.status # "pending" => ~last.is_overdue

\* C14 happens: a pending task past its due date is overdue with no hours
\* left, after a completed one equally late
C14_Witness ==
    /\ last.op = "task_properties"
    /\ last.task.status = "pending"
    /\ last.task.due_date < last.now
    /\ last.is_overdue
    /\ last.hours_until_due = 0

(***************************************************************************)
(* config.ProductivityDefaults: the configured defaults, hour lists kept   *)
(* as comma-separated strings (a string is a sequence of its characters)   *)
(***************************************************************************)
\* str.split(sep)
RECURSIVE Split(_, _)
Split(s, sep) ==
    IF \A i \in 1..Len(s) : s[i] # sep THEN <<s>>
    ELSE LET k == CHOOSE i \in 1..Len(s) :
                      s[i] = sep /\ \A j \in 1..(i - 1) : s[j] # sep
         IN <<SubSeq(s, 1, k - 1)>> \o Split(SubSeq(s, k + 1, Len(s)), sep)

\* the value of one decimal digit
Digit(c) ==
    CASE c = "0" -> 0 [] c = "1" -> 1 [] c = "2" -> 2 [] c = "3" -> 3
      [] c = "4" -> 4 [] c = "5" -> 5 [] c = "6" -> 6 [] c = "7" -> 7
      [] c = "8" -> 8 [] c = "9" -> 9

\* int(h) of a string of decimal digits
RECURSIVE ParseInt(_)
ParseInt(h) ==
    IF Len(h) = 1 THEN Digit(h[1])
    ELSE ParseInt(SubSeq(h, 1, Len(h) - 1)) * 10 + Digit(h[Len(h)])

\* ProductivityDefaults(), no environment override
ProductivityDefaults ==
    [peak_productivity_hours |->
         <<"9", ",", "1", "0", ",", "1", "1", ",", "1", "5", ",", "1", "6">>,
     avoid_hours |->
         <<"1", "3", ",", "1", "4", ",", "2", "2", ",", "2", "3">>,
     preferred_block_length |-> 90,
     break_between_blocks |-> 15,
     max_daily_deep_work |-> 6]

\* ProductivityDefaults.peak_hours_list
PeakHoursList(defaults) ==
    LET parts == Split(defaults.peak_productivity_hours, ",")
    IN [i \in 1..Len(parts) |-> ParseInt(parts[i])]

\* ProductivityDefaults.avoid_hours_list
AvoidHoursList(defaults) ==
    LET parts == Split(defaults.avoid_hours, ",")
    IN [i \in 1..Len(parts) |-> ParseInt(parts[i])]

\* the hours of a list, as a set
Hours(list) == {list[i] : i \in 1..Len(list)}

\* C12: with no profile row stored, get_productivity_profile returns a
\* profile with data_points = 0 whose peak hours, avoid hours, preferred
\* block length and break length are the defaults of ProductivityDefaults,
\* the peak hours and the avoid hours having no hour in common; a freshly
\* constructed ProductivityProfile is the same.
C12_ColdStartDefaults ==
    (last.op = "get_productivity_profile" /\ profiles = {}) =>
        /\ last.ret = ProductivityProfile(0)
        /\ last.ret.data_points = 0
        /\ last.ret.peak_hours = PeakHoursList(ProductivityDefaults)
        /\ last.ret.avoid_hours = AvoidHoursList(ProductivityDefaults)
        /\ last.ret.preferred_block_length =
              ProductivityDefaults.preferred_block_length
        /\ last.ret.break_preference =
              ProductivityDefaults.break_between_blocks
        /\ Hours(last.ret.peak_hours) \cap Hours(last.ret.avoid_hours) = {}

(***************************************************************************)
(* DatabaseClient: conflicts                                               *)
(***************************************************************************)
MaxConflicts == 2

\* a conflict is between two tasks; another pair of tasks needs a third task
ConflictTaskIds == 1..(MaxTaskId + 1)

\* the ordered pairs of different tasks
ConflictPairs ==
    {p \in ConflictTaskIds \X ConflictTaskIds : p[1] # p[2]}

ConflictTypes == {"duplicate"}

\* datetime.utcnow() of the resolve_conflict calls
ResolvedAt == 0

Resolutions == {"keep_a"}

\* Conflict(task_a_id=..., task_b_id=..., conflict_type=...)
Conflict(task_a_id, task_b_id, conflict_type) ==
    [task_a_id |-> task_a_id, task_b_id |-> task_b_id,
     conflict_type |-> conflict_type, resolution |-> NoneStr,
     resolved |-> FALSE]

\* the conflicts a detector records: two different tasks, not yet resolved
ConflictInputs ==
    {Conflict(p[1], p[2], t) : p \in ConflictPairs, t \in ConflictTypes}

\* table("conflicts").insert(data): a new row, its resolved_at not set
InsertConflict(rows, data) ==
    Append(rows, [task_a_id |-> data.task_a_id, task_b_id |-> data.task_b_id,
                  conflict_type |-> data.conflict_type,
                  resolution |-> data.resolution, resolved |-> data.resolved,
                  resolved_at |-> None])

\* [Conflict(**c) for c in result.data]
ConflictOf(c) ==
    [task_a_id |-> c.task_a_id, task_b_id |-> c.task_b_id,
     conflict_type |-> c.conflict_type, resolution |-> c.resolution,
     resolved |-> c.resolved]

\* select("*").eq("resolved", False)
GetUnresolvedConflictsMutant(rows) ==
    [i \in 1..Len(rows) |-> ConflictOf(rows[i])]
GetUnresolvedConflicts(rows) ==
    LET found == SelectSeq(rows, LAMBDA c : c.resolved = FALSE)
    IN [i \in 1..Len(found) |-> ConflictOf(found[i])]

\* update({...}).eq("task_a_id", a).eq("task_b_id", b)
ResolveRows(rows, task_a_id, task_b_id, resolution, now) ==
    [i \in 1..Len(rows) |->
        IF rows[i].task_a_id = task_a_id /\ rows[i].task_b_id = task_b_id
        THEN [rows[i] EXCEPT !.resolved = TRUE, !.resolution = resolution,
                             !.resolved_at = now]
        ELSE rows[i]]

\* create_conflict(conflict)
CreateConflict(conflict) ==
    /\ Len(conflicts) < MaxConflicts
    /\ conflicts' = InsertConflict(conflicts, conflict)
    /\ last' = [op |-> "create_conflict", conflict |-> conflict]
    /\ UNCHANGED <<tasks, upsert, blocks, rep, profiles, nextRowId, upd>>

\* get_unresolved_conflicts()
ReadUnresolvedConflicts ==
    /\ last' = [op |-> "get_unresolved_conflicts",
                ret |-> GetUnresolvedConflicts(conflicts)]
    /\ UNCHANGED <<conflicts, tasks, upsert, blocks, rep, profiles, nextRowId,
                   upd>>

\* resolve_conflict(task_a_id, task_b_id, resolution), called at time now
ResolveConflict(task_a_id, task_b_id, resolution, now) ==
    /\ conflicts' =
          ResolveRows(conflicts, task_a_id, task_b_id, resolution, now)
    /\ last' = [op |-> "resolve_conflict", task_a_id |-> task_a_id,
                task_b_id |-> task_b_id, resolution |-> resolution]
    /\ UNCHANGED <<tasks, upsert, blocks, rep, profiles, nextRowId, upd>>

(***************************************************************************)
(* Specification: conflicts recorded, listed and resolved                  *)
(***************************************************************************)
NextConflicts ==
    \/ \E c \in ConflictInputs : CreateConflict(c)
    \/ ReadUnresolvedConflicts
    \/ \E p \in ConflictPairs, r \in Resolutions :
          ResolveConflict(p[1], p[2], r, ResolvedAt)

SpecConflicts == Init /\ [][NextConflicts]_vars

(***************************************************************************)
(* Properties of conflicts                                                 *)
(***************************************************************************)
\* the rows of the ordered pair (task_a_id, task_b_id)
SamePair(c, task_a_id, task_b_id) ==
    c.task_a_id = task_a_id /\ c.task_b_id = task_b_id

\* ret holds every row of rows that is not resolved, and nothing else
UnresolvedReturned(rows, ret) ==
    /\ \A i \in 1..Len(rows) :
          ~rows[i].resolved =>
              \E k \in 1..Len(ret) : ret[k] = ConflictOf(rows[i])
    /\ \A k \in 1..Len(ret) : ~ret[k].resolved
    /\ Len(ret) = Cardinality({i \in 1..Len(rows) : ~rows[i].resolved})

\* C13: get_unresolved_conflicts returns every recorded conflict that is not
\* resolved and no resolved one; resolve_conflict(task_a_id, task_b_id, ...)
\* resolves the conflicts of its pair and leaves those of every other pair
\* unchanged; a conflict becomes resolved only by a resolve_conflict for its
\* pair, and once resolved no operation makes it unresolved or removes it.
C13_ResolveOneWayPairScoped ==
    [][/\ last'.op = "get_unresolved_conflicts" =>
            UnresolvedReturned(conflicts', last'.ret)
       /\ last'.op = "resolve_conflict" =>
            \A i \in 1..Len(conflicts') :
                SamePair(conflicts'[i], last'.task_a_id, last'.task_b_id)
                    => conflicts'[i].resolved
       /\ Len(conflicts') >= Len(conflicts)
       /\ \A i \in 1..Len(conflicts) :
             /\ conflicts[i].resolved => conflicts'[i].resolved
             /\ (~conflicts[i].resolved /\ conflicts'[i].resolved) =>
                   /\ last'.op = "resolve_conflict"
                   /\ SamePair(conflicts[i], last'.task_a_id,
                               last'.task_b_id)
             /\ (/\ last'.op = "resolve_conflict"
                 /\ ~SamePair(conflicts[i], last'.task_a_id,
                              last'.task_b_id)) =>
                   conflicts'[i] = conflicts[i]
             /\ last'.op # "resolve_conflict" =>
                   conflicts'[i] = conflicts[i]]_vars

\* C13 happens: with one conflict resolved and a conflict between another
\* pair of tasks still open, get_unresolved_conflicts returns the open one
C13_Witness ==
    /\ last.op = "get_unresolved_conflicts"
    /\ \E i, j \in 1..Len(conflicts) :
          /\ conflicts[i].resolved
          /\ conflicts[i].resolution \in Resolutions
          /\ ~conflicts[j].resolved
          /\ {conflicts[i].task_a_id, conflicts[i].task_b_id}
                # {conflicts[j].task_a_id, conflicts[j].task_b_id}
          /\ last.ret = <<ConflictOf(conflicts[j])>>

====
